---- MODULE Spec2Model ----
(***************************************************************************)
(* A model of bambou-rs: one Session (src/src/lib.rs) and the entities a   *)
(* caller holds, with every Session operation as one atomic action.  The   *)
(* server is the environment: each action draws the outcome of its single  *)
(* request/response round trip from a small set.                           *)
(*                                                                         *)
(* Strings are sequences of tokens, so String::push_str is \o and the      *)
(* empty string is <<>>.                                                   *)
(***************************************************************************)
EXTENDS Integers, Sequences, FiniteSets, TLC

VARIABLES config, ent, children, moved, last, issued

vars == <<config, ent, children, moved, last, issued>>

\* ---------------------------------------------------------------- bounds

\* Longest JSON array the server sends back.
MaxArr == 2

\* ------------------------------------------------------------- constants

\* Option::None, for every optional field.
None == "None"

\* hyper's StatusCode::Ok, ::Created, ::NoContent.
StatusOk == 200
StatusCreated == 201
StatusNoContent == 204

\* The status codes the server answers with: each is the one some method expects
\* and one the other methods do not.
Statuses == {StatusOk, StatusCreated, StatusNoContent}

\* Identifiers the server hands out to non-root entities, the root's identifier,
\* and the API keys it issues.
Ids == {"7", "42"}
RootIds == {"1"}
Keys == {"k1", "k2"}

\* The one session of the model, as the target of an entity's session reference.
SessionRef == "session"

\* ------------------------------------------------------ entities (RestEntity)

\* The entity types of the caller: a root, a plain type whose path and group
\* path agree, and a type whose path and group path differ.
TypeNames == {"Me", "Group", "Member"}

path(T) ==
    CASE T = "Me" -> "/me"
      [] T = "Group" -> "/groups"
      [] T = "Member" -> "/member"

group_path(T) ==
    CASE T = "Me" -> "/me"
      [] T = "Group" -> "/groups"
      [] T = "Member" -> "/members"

is_root(e) == e.type = "Me"

id(e) == e.ID

get_session(e) == e.session

get_api_key(e) == e.apiKey

set_session(e, s) == [e EXCEPT !.session = s]

\* The slots in which the caller holds its entities, and the type of each.
Slots == {"root", "group", "member"}

SlotType(s) ==
    CASE s = "root" -> "Me"
      [] s = "group" -> "Group"
      [] s = "member" -> "Member"

\* An entity as the caller constructs it: no session yet.
NewEntity(T, i) == [type |-> T, ID |-> i, apiKey |-> None, session |-> None]

\* ------------------------------------------------------------ wire format

\* A JSON object of the wire: the fields serde writes and reads.  The session
\* reference is not part of it.
WireOf(T) ==
    IF T = "Me"
    THEN [ID : RootIds, apiKey : Keys \cup {None}]
    ELSE [ID : Ids, apiKey : {None}]

\* serde_json::to_string(&entity): the entity's JSON object, as the body's text.
to_string(e) == [json |-> TRUE, items |-> <<[ID |-> e.ID, apiKey |-> e.apiKey]>>]

\* A response body: text that is no JSON array of the type, or a JSON array.
NotJson == [json |-> FALSE, items |-> <<>>]

RECURSIVE SeqsUpTo(_, _)
SeqsUpTo(S, n) ==
    IF n = 0
    THEN {<<>>}
    ELSE LET shorter == SeqsUpTo(S, n - 1)
         IN shorter \cup {Append(q, x) : q \in {r \in shorter : Len(r) = n - 1}, x \in S}

Bodies(T) == {NotJson} \cup {[json |-> TRUE, items |-> q] : q \in SeqsUpTo(WireOf(T), MaxArr)}

\* serde_json::from_str::<Vec<E>>(&body): the entities of the array, none of them
\* bound to a session, or a serde error.
from_str(T, body) ==
    IF body.json
    THEN [ok |-> TRUE,
          entities |-> [i \in 1..Len(body.items) |->
                           [type |-> T, ID |-> body.items[i].ID,
                            apiKey |-> body.items[i].apiKey, session |-> None]]]
    ELSE [ok |-> FALSE, entities |-> <<>>]

\* Mutant of pop: the first element is taken instead of the last.
pop_first(entities) ==
    IF Len(entities) = 0
    THEN [some |-> FALSE, value |-> NewEntity("Me", None)]
    ELSE [some |-> TRUE, value |-> entities[1]]

\* Vec::pop: the last element, if any.
pop(entities) ==
    IF Len(entities) = 0
    THEN [some |-> FALSE, value |-> NewEntity("Me", None)]
    ELSE [some |-> TRUE, value |-> entities[Len(entities)]]

\* ------------------------------------------------------------------ errors

\* The results an operation ends with: Ok, one BambouError kind, or a panic.
NoReason == [message |-> NotJson, status_code |-> 0]

Ok == [kind |-> "Ok", text |-> "", reason |-> NoReason]

Err(kind) == [kind |-> kind, text |-> "", reason |-> NoReason]

InvalidResponse(text) == [kind |-> "InvalidResponse", text |-> text, reason |-> NoReason]

RequestFailed(message, status_code) ==
    [kind |-> "RequestFailed", text |-> "",
     reason |-> [message |-> message, status_code |-> status_code]]

Panic == Err("panic")

\* From<io::Error>, From<serde_json::Error>, From<hyper::Error> for BambouError
\* (FromSerdeErrorAsInvalid is a mutant of FromSerdeError: the kind of the empty
\* array is given to a body that does not decode).
FromIoError == Err("CannotReadResponse")
FromSerdeErrorAsInvalid == Err("InvalidResponse")
FromSerdeError == Err("CannotParseResponse")
FromHyperError == Err("HttpError")

ErrorKinds == {"CannotReadResponse", "CannotParseResponse", "HttpError",
               "InvalidResponse", "RequestFailed", "NoSession"}

\* ------------------------------------------------------------- the network

\* What one round trip gives: the send fails, reading the body fails, or a
\* response with a status code and a body arrives.
NoResp == [outcome |-> "none", status |-> 0, body |-> NotJson]

Nets(T) ==
    {[outcome |-> o, status |-> 0, body |-> NotJson] : o \in {"send_failed", "read_failed"}}
    \cup {[outcome |-> "received", status |-> s, body |-> b] : s \in Statuses, b \in Bodies(T)}

MeNets == Nets("Me")
GroupNets == Nets("Group")
MemberNets == Nets("Member")

NetsOf(T) ==
    CASE T = "Me" -> MeNets
      [] T = "Group" -> GroupNets
      [] T = "Member" -> MemberNets

\* The inputs of an operation that serializes its argument first: serialization
\* fails and nothing is sent, or it succeeds and the round trip takes place.
SerNetsOf(T) ==
    {[ser |-> FALSE, net |-> NoResp]} \cup {[ser |-> TRUE, net |-> n] : n \in NetsOf(T)}

\* ------------------------------------------------------------- the session

\* SessionConfig as the caller builds it: no API key yet.
InitConfig ==
    [url |-> "https://api.example.com", username |-> "user", password |-> "p1",
     api_key |-> None, organization |-> "acme", root |-> "/api"]

\* Mutant of get_common_headers: the password is the credential even when the
\* session holds an API key.
get_common_headers_password_only(cfg) ==
    [organization |-> cfg.organization,
     content_type |-> "application/json; charset=utf-8",
     username |-> cfg.username,
     password |-> cfg.password]

\* Session::get_common_headers: the organization, the content type and the
\* Basic credentials, with the API key as the password when there is one.
get_common_headers(cfg) ==
    [organization |-> cfg.organization,
     content_type |-> "application/json; charset=utf-8",
     username |-> cfg.username,
     password |-> IF cfg.api_key # None THEN cfg.api_key ELSE cfg.password]

\* Session::get_url: url, then root, then the path.
get_url(cfg, p) == (<<cfg.url>> \o <<cfg.root>>) \o p

\* Mutant of get_entity_path: the identifier segment is appended for a root too.
get_entity_path_always_id(e) ==
    (<<path(e.type)>> \o <<"/">>) \o (IF id(e) # None THEN <<id(e)>> ELSE <<>>)

\* Session::get_entity_path: the type's path and, unless the entity is a root,
\* "/" and the identifier, or the empty string when there is none.
get_entity_path(e) ==
    LET p == <<path(e.type)>>
    IN IF is_root(e)
       THEN p
       ELSE (p \o <<"/">>) \o (IF id(e) # None THEN <<id(e)>> ELSE <<>>)

\* ---------------------------------------------------------------- requests

NoHeaders == [organization |-> "", content_type |-> "", username |-> "", password |-> ""]

\* No request left the client.
NoReq == [method |-> "none", url |-> <<>>, headers |-> NoHeaders, body |-> NotJson]

Request(method, url, headers, body) ==
    [method |-> method, url |-> url, headers |-> headers, body |-> body]

\* What the four http_* functions share: send, read the body, compare the status
\* with the one expected.
Transport(req, expected, net) ==
    IF net.outcome = "send_failed"
    THEN [ok |-> FALSE, error |-> FromHyperError, body |-> NotJson, req |-> req]
    ELSE IF net.outcome = "read_failed"
    THEN [ok |-> FALSE, error |-> FromIoError, body |-> NotJson, req |-> req]
    ELSE IF net.status # expected
    THEN [ok |-> FALSE, error |-> RequestFailed(net.body, net.status),
          body |-> NotJson, req |-> req]
    ELSE [ok |-> TRUE, error |-> Ok, body |-> net.body, req |-> req]

http_put(cfg, p, body, headers, net) ==
    Transport(Request("PUT", get_url(cfg, p), headers, body), StatusOk, net)

\* Mutant of http_get: every 2xx status code counts as success.
http_get_any_success(cfg, p, headers, net) ==
    Transport(Request("GET", get_url(cfg, p), headers, NotJson),
              IF net.status \in 200..299 THEN net.status ELSE StatusOk, net)

\* Mutant of http_get: the request is sent as a POST.
http_get_posts(cfg, p, headers, net) ==
    Transport(Request("POST", get_url(cfg, p), headers, NotJson), StatusOk, net)

http_get(cfg, p, headers, net) ==
    Transport(Request("GET", get_url(cfg, p), headers, NotJson), StatusOk, net)

http_post(cfg, p, body, headers, net) ==
    Transport(Request("POST", get_url(cfg, p), headers, body), StatusCreated, net)

http_delete(cfg, p, headers, net) ==
    Transport(Request("DELETE", get_url(cfg, p), headers, NotJson), StatusNoContent, net)

\* -------------------------------------------------------------- operations
\* Each operation as a function of the session's configuration, its arguments
\* and the outcome of its round trip; it gives the result, the request made and
\* the value its mutable argument holds when it ends.

\* Session::fetch_entity
fetch_entity(cfg, entity, net) ==
    LET h == http_get(cfg, get_entity_path(entity), get_common_headers(cfg), net)
        entities == from_str(entity.type, h.body)
        popped == pop(entities.entities)
    IN IF ~h.ok
       THEN [result |-> h.error, entity |-> entity, req |-> h.req]
       ELSE IF ~entities.ok
       THEN [result |-> FromSerdeError, entity |-> entity, req |-> h.req]
       ELSE IF ~popped.some
       THEN [result |-> InvalidResponse("Failed to fetch entity: body is empty."),
             entity |-> entity, req |-> h.req]
       ELSE [result |-> Ok, entity |-> popped.value, req |-> h.req]

\* Mutant of fetch: the session is attached before the entity is fetched, so it
\* stays attached when the fetch fails.
fetch_binds_first(cfg, entity, net) ==
    LET f == fetch_entity(cfg, entity, net)
    IN IF f.result.kind # "Ok"
       THEN [f EXCEPT !.entity = set_session(entity, SessionRef)]
       ELSE [f EXCEPT !.entity = set_session(f.entity, SessionRef)]

\* Session::fetch
fetch(cfg, entity, net) ==
    LET f == fetch_entity(cfg, entity, net)
    IN IF f.result.kind # "Ok"
       THEN f
       ELSE [f EXCEPT !.entity = set_session(f.entity, SessionRef)]

\* Session::save; ser is whether serde_json::to_string succeeds.
save(cfg, entity, ser, net) ==
    LET h == http_put(cfg, get_entity_path(entity), to_string(entity),
                      get_common_headers(cfg), net)
        entities == from_str(entity.type, h.body)
        popped == pop(entities.entities)
    IN IF ~ser
       THEN [result |-> FromSerdeError, entity |-> entity, req |-> NoReq]
       ELSE IF ~h.ok
       THEN [result |-> h.error, entity |-> entity, req |-> h.req]
       ELSE IF ~entities.ok
       THEN [result |-> FromSerdeError, entity |-> entity, req |-> h.req]
       ELSE IF ~popped.some
       THEN [result |-> InvalidResponse("Failed to read updated entity : body is empty."),
             entity |-> entity, req |-> h.req]
       ELSE [result |-> Ok, entity |-> set_session(popped.value, SessionRef),
             req |-> h.req]

\* Session::delete
delete(cfg, entity, net) ==
    LET h == http_delete(cfg, get_entity_path(entity), get_common_headers(cfg), net)
    IN [result |-> h.error, req |-> h.req]

\* The path create_child builds: the parent's entity path is computed and
\* dropped, and the child type's group path is all that is pushed.
create_child_path(parent, C) == <<>> \o <<group_path(C)>>

\* Session::create_child
create_child(cfg, parent, child, ser, net) ==
    LET h == http_post(cfg, create_child_path(parent, child.type), to_string(child),
                       get_common_headers(cfg), net)
        entities == from_str(child.type, h.body)
        popped == pop(entities.entities)
    IN IF ~ser
       THEN [result |-> FromSerdeError, entity |-> child, req |-> NoReq]
       ELSE IF ~h.ok
       THEN [result |-> h.error, entity |-> child, req |-> h.req]
       ELSE IF ~entities.ok
       THEN [result |-> FromSerdeError, entity |-> child, req |-> h.req]
       ELSE IF ~popped.some
       THEN [result |-> Panic, entity |-> child, req |-> h.req]
       ELSE [result |-> Ok, entity |-> set_session(popped.value, SessionRef),
             req |-> h.req]

\* The path fetch_children builds: as in create_child, but with the child
\* type's path.
fetch_children_path(parent, C) == <<>> \o <<path(C)>>

\* Mutant of fetch_children: the decoded children are appended to the vector's
\* prior contents.
fetch_children_appends(cfg, parent, C, old, net) ==
    LET h == http_get(cfg, fetch_children_path(parent, C), get_common_headers(cfg), net)
        entities == from_str(C, h.body)
    IN IF ~h.ok
       THEN [result |-> h.error, children |-> old, req |-> h.req]
       ELSE IF ~entities.ok
       THEN [result |-> FromSerdeError, children |-> old, req |-> h.req]
       ELSE [result |-> Ok,
             children |-> old \o [i \in 1..Len(entities.entities) |->
                                     set_session(entities.entities[i], SessionRef)],
             req |-> h.req]

\* Session::fetch_children, into a vector of C.
fetch_children(cfg, parent, C, old, net) ==
    LET h == http_get(cfg, fetch_children_path(parent, C), get_common_headers(cfg), net)
        entities == from_str(C, h.body)
    IN IF ~h.ok
       THEN [result |-> h.error, children |-> old, req |-> h.req]
       ELSE IF ~entities.ok
       THEN [result |-> FromSerdeError, children |-> old, req |-> h.req]
       ELSE [result |-> Ok,
             children |-> [i \in 1..Len(entities.entities) |->
                              set_session(entities.entities[i], SessionRef)],
             req |-> h.req]

\* Mutant of connect: the API key the root holds is stored before the root is
\* fetched, so it stays stored when the fetch fails.
connect_stores_first(cfg, root, net) ==
    LET early == IF get_api_key(root) # None
                 THEN [cfg EXCEPT !.api_key = get_api_key(root)]
                 ELSE cfg
        f == fetch_entity(cfg, root, net)
    IN IF f.result.kind # "Ok"
       THEN [result |-> f.result, entity |-> f.entity, config |-> early, req |-> f.req]
       ELSE IF get_api_key(f.entity) = None
       THEN [result |-> Panic, entity |-> f.entity, config |-> early, req |-> f.req]
       ELSE [result |-> Ok, entity |-> set_session(f.entity, SessionRef),
             config |-> [cfg EXCEPT !.api_key = get_api_key(f.entity)], req |-> f.req]

\* Mutant of connect: the API key is stored in the password field as well.
connect_overwrites_password(cfg, root, net) ==
    LET f == fetch_entity(cfg, root, net)
    IN IF f.result.kind # "Ok"
       THEN [result |-> f.result, entity |-> f.entity, config |-> cfg, req |-> f.req]
       ELSE IF get_api_key(f.entity) = None
       THEN [result |-> Panic, entity |-> f.entity, config |-> cfg, req |-> f.req]
       ELSE [result |-> Ok, entity |-> set_session(f.entity, SessionRef),
             config |-> [cfg EXCEPT !.api_key = get_api_key(f.entity),
                                    !.password = get_api_key(f.entity)],
             req |-> f.req]

\* Session::connect
connect(cfg, root, net) ==
    LET f == fetch_entity(cfg, root, net)
    IN IF f.result.kind # "Ok"
       THEN [result |-> f.result, entity |-> f.entity, config |-> cfg, req |-> f.req]
       ELSE IF get_api_key(f.entity) = None
       THEN [result |-> Panic, entity |-> f.entity, config |-> cfg, req |-> f.req]
       ELSE [result |-> Ok, entity |-> set_session(f.entity, SessionRef),
             config |-> [cfg EXCEPT !.api_key = get_api_key(f.entity)], req |-> f.req]

\* ------------------------------------------------------------------- state

\* The call that has just returned: the operation, its arguments, the request it
\* made, what came back and the result.  NoCall between two calls.
NoCall == [op |-> "none", arg |-> "none", parent |-> "none", req |-> NoReq,
           resp |-> NoResp, result |-> Ok]

Call(op, arg, parent, req, resp, result) ==
    [op |-> op, arg |-> arg, parent |-> parent, req |-> req,
     resp |-> IF req = NoReq THEN NoResp ELSE resp, result |-> result]

\* The caller is between two calls.
Idle == last = NoCall

\* The slots the caller fetches, saves and deletes; the third slot is the child
\* it creates.
Held == {"root", "group"}

Init ==
    /\ config = InitConfig
    /\ ent \in {[s \in Slots |-> NewEntity(SlotType(s), IF s = "group" THEN i ELSE None)] :
                   i \in {"7", None}}
    /\ children = <<>>
    /\ moved = {}
    /\ last = NoCall
    /\ issued = {}

Fetch(s) ==
    /\ Idle
    /\ s \notin moved
    /\ \E net \in NetsOf(SlotType(s)) :
         LET r == fetch(config, ent[s], net)
         IN /\ ent' = [ent EXCEPT ![s] = r.entity]
            /\ last' = Call("fetch", s, "none", r.req, net, r.result)
    /\ UNCHANGED <<config, children, moved, issued>>

Save(s) ==
    /\ Idle
    /\ s \notin moved
    /\ \E in \in SerNetsOf(SlotType(s)) :
         LET r == save(config, ent[s], in.ser, in.net)
         IN /\ ent' = [ent EXCEPT ![s] = r.entity]
            /\ last' = Call("save", s, "none", r.req, in.net, r.result)
    /\ UNCHANGED <<config, children, moved, issued>>

\* The entity is moved into delete: afterwards the caller's slot holds no value,
\* for which a fixed placeholder stands.
Delete(s) ==
    /\ Idle
    /\ s \notin moved
    /\ \E net \in NetsOf(SlotType(s)) :
         LET r == delete(config, ent[s], net)
         IN last' = Call("delete", s, "none", r.req, net, r.result)
    /\ moved' = moved \cup {s}
    /\ ent' = [ent EXCEPT ![s] = NewEntity(SlotType(s), None)]
    /\ UNCHANGED <<config, children, issued>>

CreateChild(p, c) ==
    /\ Idle
    /\ p \notin moved
    /\ \E in \in SerNetsOf(SlotType(c)) :
         LET r == create_child(config, ent[p], ent[c], in.ser, in.net)
         IN /\ ent' = [ent EXCEPT ![c] = r.entity]
            /\ last' = Call("create_child", c, p, r.req, in.net, r.result)
    /\ UNCHANGED <<config, children, moved, issued>>

FetchChildren(p) ==
    /\ Idle
    /\ p \notin moved
    /\ \E net \in MemberNets :
         LET r == fetch_children(config, ent[p], "Member", children, net)
         IN /\ children' = r.children
            /\ last' = Call("fetch_children", "children", p, r.req, net, r.result)
    /\ UNCHANGED <<config, ent, moved, issued>>

\* issued is history: the API keys that successful calls of connect have stored.
Connect ==
    /\ Idle
    /\ "root" \notin moved
    /\ \E net \in MeNets :
         LET r == connect(config, ent["root"], net)
         IN /\ ent' = [ent EXCEPT !["root"] = r.entity]
            /\ config' = r.config
            /\ last' = Call("connect", "root", "none", r.req, net, r.result)
            /\ issued' = IF r.result.kind = "Ok"
                         THEN issued \cup {r.config.api_key}
                         ELSE issued
    /\ UNCHANGED <<children, moved>>

\* The call has returned and the caller goes on to its next call.  After a panic
\* there is no next call.
Return ==
    /\ ~Idle
    /\ last.result.kind # "panic"
    /\ last' = NoCall
    /\ UNCHANGED <<config, ent, children, moved, issued>>

Next ==
    \/ \E s \in Held : Fetch(s)
    \/ \E s \in Held : Save(s)
    \/ \E s \in Held : Delete(s)
    \/ \E p \in Held : CreateChild(p, "member")
    \/ \E p \in Held : FetchChildren(p)
    \/ Connect
    \/ Return

Spec == Init /\ [][Next]_vars

\* fetch called again on the entity it has just been called on, with nothing in
\* between.  The server has not changed: a GET for the URL of the first call is
\* answered as the first was; a GET for another URL (the first call has changed
\* the entity's identifier) is answered as the server pleases.
FetchAgain(s) ==
    /\ last.op = "fetch"
    /\ last.arg = s
    /\ \E net \in NetsOf(SlotType(s)) :
         LET r == fetch(config, ent[s], net)
         IN /\ r.req.url = last.req.url => net = last.resp
            /\ ent' = [ent EXCEPT ![s] = r.entity]
            /\ last' = Call("fetch_again", s, "none", r.req, net, r.result)
    /\ UNCHANGED <<config, children, moved, issued>>

\* The caller that fetches, and fetches again, entities that have what fetch
\* asks for: an identifier, unless the entity is a root.
InitFetchTwice ==
    /\ Init
    /\ \A s \in Held : is_root(ent[s]) \/ id(ent[s]) # None

NextFetchTwice ==
    \/ \E s \in Held : Fetch(s)
    \/ \E s \in Held : FetchAgain(s)
    \/ Return

SpecFetchTwice == InitFetchTwice /\ [][NextFetchTwice]_vars

\* ------------------------------------------------------------------ claims

\* The operations that hydrate one entity, and the five a session serves after
\* connect.
SingleOps == {"fetch", "save", "create_child", "connect"}
LaterOps == {"fetch", "save", "delete", "create_child", "fetch_children"}

\* The status code the spec gives each method.
ExpectedStatus(method) ==
    CASE method = "GET" -> 200
      [] method = "PUT" -> 200
      [] method = "POST" -> 201
      [] method = "DELETE" -> 204
      [] OTHER -> 0

\* The entity the spec's hydrator makes of one JSON object of the wire for the
\* caller's slot s: its fields, bound to the session.
Hydrated(s, w) ==
    [type |-> SlotType(s), ID |-> w.ID, apiKey |-> w.apiKey, session |-> SessionRef]

\* A response with the status code its method expects has arrived.
ExpectedArrived(c) ==
    /\ c.resp.outcome = "received"
    /\ c.resp.status = ExpectedStatus(c.req.method)

\* C1: fetch and save of an entity that is no root and has no identifier fail
\* with MissingIdentifier and leave the entity as it was.
C1_MissingIdentifier ==
    [][\A s \in Held :
         (/\ last'.op \in {"fetch", "save"}
          /\ last'.arg = s
          /\ ~is_root(ent[s])
          /\ id(ent[s]) = None)
         => (last'.result.kind = "MissingIdentifier" /\ ent'[s] = ent[s])]_vars

\* C2: a single-entity operation whose response has the expected status and an
\* empty array as its body fails with InvalidResponse and leaves its entity
\* argument as it was.
C2_EmptyArrayIsInvalidResponse ==
    [][(/\ last'.op \in SingleOps
        /\ ExpectedArrived(last')
        /\ last'.resp.body.json
        /\ Len(last'.resp.body.items) = 0)
       => (last'.result.kind = "InvalidResponse" /\ ent' = ent)]_vars

\* C3: create_child and fetch_children under a parent that is no root and has an
\* identifier send their request to base, the parent's path, "/", the parent's
\* identifier and the child type's group path.
C3_ChildUrlUnderNonRootParent ==
    (/\ last.op \in {"create_child", "fetch_children"}
     /\ last.req # NoReq
     /\ ~is_root(ent[last.parent])
     /\ id(ent[last.parent]) # None)
    => last.req.url = <<config.url, config.root, path(ent[last.parent].type), "/",
                        id(ent[last.parent]), group_path("Member")>>

\* C4: after a successful fetch, save or create_child the entity argument is the
\* last element of the response's array, bound to the session of the call.
C4_HydratedFromLastElement ==
    (last.op \in {"fetch", "save", "create_child"} /\ last.result.kind = "Ok")
    => /\ last.resp.outcome = "received"
       /\ last.resp.body.json
       /\ Len(last.resp.body.items) >= 1
       /\ ent[last.arg] = Hydrated(last.arg, last.resp.body.items[Len(last.resp.body.items)])
       /\ get_session(ent[last.arg]) = SessionRef

C4_Witness ==
    /\ last.op = "save"
    /\ last.result.kind = "Ok"
    /\ Len(last.resp.body.items) = 2
    /\ last.resp.body.items[1] # last.resp.body.items[2]

\* C5: an operation succeeds only on the status code of its method (GET and PUT
\* 200, POST 201, DELETE 204); on any other status code, whatever the body, it
\* fails with RequestFailed carrying that body and that status code, and nothing
\* is hydrated.
C5_ExactStatusOrRequestFailed ==
    [][/\ (last'.op # "none" /\ last'.result.kind = "Ok") => ExpectedArrived(last')
       /\ (/\ last'.op # "none"
           /\ last'.resp.outcome = "received"
           /\ last'.resp.status # ExpectedStatus(last'.req.method))
          => /\ last'.result.kind = "RequestFailed"
             /\ last'.result.reason.message = last'.resp.body
             /\ last'.result.reason.status_code = last'.resp.status
             /\ last'.op # "delete" => ent' = ent
             /\ children' = children
             /\ config' = config]_vars

C5_Witness ==
    /\ last.op = "fetch"
    /\ last.resp.outcome = "received"
    /\ last.resp.status = 201
    /\ last.resp.body.json
    /\ Len(last.resp.body.items) >= 1
    /\ last.result.kind = "RequestFailed"
    /\ last.result.reason.message = last.resp.body

\* C6: once connect has returned successfully with a root whose API key is K, the
\* session's api_key is K and the root is bound to the session, and every request
\* that fetch, save, delete, create_child or fetch_children sends afterwards
\* carries K as its Basic credential.
C6_RequestsCarryConnectKey ==
    /\ (last.op = "connect" /\ last.result.kind = "Ok")
       => /\ get_api_key(ent["root"]) # None
          /\ config.api_key = get_api_key(ent["root"])
          /\ get_session(ent["root"]) = SessionRef
    /\ (last.op \in LaterOps /\ last.req # NoReq)
       => \A K \in issued : last.req.headers.password = K

\* C7: the session's api_key changes at most once: from absent to present, inside
\* connect; once present it is neither cleared nor replaced.
C7_ApiKeyChangesOnce ==
    [][config'.api_key # config.api_key
       => (/\ last'.op = "connect"
           /\ config.api_key = None
           /\ config'.api_key # None)]_vars

\* C8: every operation ends by returning success or one BambouError; none panics.
C8_NoPanic ==
    last.op # "none" => last.result.kind \in {"Ok"} \cup ErrorKinds

\* C9: create_child and fetch_children under a root parent send their request to
\* base and the child type's group path: the root's own path is not part of it,
\* and it is the group path, not the path, of the child type.
C9_ChildUrlUnderRootParent ==
    (/\ last.op \in {"create_child", "fetch_children"}
     /\ last.req # NoReq
     /\ is_root(ent[last.parent]))
    => last.req.url = <<config.url, config.root, group_path("Member")>>

\* C10: the headers of a request are a function of the session at the time of
\* the call: the user name is the session's, the credential is the API key when
\* there is one and the password when there is none; the operations that only
\* build headers leave every session field as it was.
C10_HeadersFromSession ==
    [][/\ last'.req # NoReq
          => /\ last'.req.headers.username = config.username
             /\ last'.req.headers.password =
                   (IF config.api_key = None THEN config.password ELSE config.api_key)
       /\ last'.op \in LaterOps => config' = config]_vars

C10_Witness ==
    /\ last.op \in LaterOps
    /\ last.req # NoReq
    /\ config.api_key = "k1"
    /\ config.password = "p1"
    /\ last.req.headers.password = "k1"

\* The operations that decode the body of their response.
DecodingOps == {"fetch", "save", "create_child", "fetch_children", "connect"}

\* C11: a successful fetch_children leaves in the output vector the elements of
\* the response's array, all of them and in the array's order, each bound to the
\* session, and nothing of what the vector held before.
C11_ChildrenAreTheWholeArray ==
    (last.op = "fetch_children" /\ last.result.kind = "Ok")
    => /\ last.resp.outcome = "received"
       /\ last.resp.body.json
       /\ Len(children) = Len(last.resp.body.items)
       /\ \A i \in 1..Len(children) :
            children[i] = [type |-> "Member", ID |-> last.resp.body.items[i].ID,
                           apiKey |-> last.resp.body.items[i].apiKey,
                           session |-> SessionRef]

C11_Witness ==
    /\ last.op = "fetch_children"
    /\ last.result.kind = "Ok"
    /\ Len(children) = 2
    /\ children[1].ID # children[2].ID

\* C12: fetch, save and delete send their request to base and the type's path
\* when the entity is a root, and to base, the type's path, "/" and the
\* identifier when it is no root and has an identifier.
C12_EntityUrl ==
    [][\A s \in Held :
         (last'.op \in {"fetch", "save", "delete"} /\ last'.arg = s /\ last'.req # NoReq)
         => /\ is_root(ent[s])
               => last'.req.url = <<config.url, config.root, path(ent[s].type)>>
            /\ (~is_root(ent[s]) /\ id(ent[s]) # None)
               => last'.req.url = <<config.url, config.root, path(ent[s].type), "/",
                                    id(ent[s])>>]_vars

C12_Witness ==
    /\ last.op = "save"
    /\ last.arg = "group"
    /\ last.req.url = <<"https://api.example.com", "/api", "/groups", "/", "42">>

\* C13: a body that does not decode into an array of the entity type gives
\* CannotParseResponse, never InvalidResponse; a body that is an empty array
\* never gives CannotParseResponse.
C13_ParseErrorIsNotEmptyArray ==
    (last.op \in DecodingOps /\ ExpectedArrived(last))
    => /\ ~last.resp.body.json => last.result.kind = "CannotParseResponse"
       /\ (last.resp.body.json /\ Len(last.resp.body.items) = 0)
          => last.result.kind # "CannotParseResponse"

C13_Witness ==
    /\ last.op = "create_child"
    /\ ExpectedArrived(last)
    /\ ~last.resp.body.json
    /\ last.result.kind = "CannotParseResponse"

\* C14: fetch sends only GET requests, and fetch called twice in a row against a
\* server that has not changed leaves the entity and the session as one call
\* leaves them.
C14_FetchTwiceIsFetchOnce ==
    [][/\ last'.op \in {"fetch", "fetch_again"} => last'.req.method = "GET"
       /\ last'.op = "fetch_again" => (ent' = ent /\ config' = config)]_vars

\* C14 as amended: fetch sends only GET requests, and a second fetch that the
\* server answers as it answered the first leaves the entity and the session as
\* the first call left them.
C14_FetchTwiceSameAnswer ==
    [][/\ last'.op \in {"fetch", "fetch_again"} => last'.req.method = "GET"
       /\ (last'.op = "fetch_again" /\ last'.resp = last.resp)
          => (ent' = ent /\ config' = config)]_vars

C14_Witness ==
    /\ last.op = "fetch_again"
    /\ last.arg = "group"
    /\ last.result.kind = "Ok"
    /\ last.req.url = <<"https://api.example.com", "/api", "/groups", "/", "7">>
    /\ Len(last.resp.body.items) = 2
    /\ ent["group"] = Hydrated("group", [ID |-> "7", apiKey |-> None])

\* C15: delete of an entity that is no root and has no identifier fails with
\* MissingIdentifier and sends no request.
C15_DeleteNeedsIdentifier ==
    [][\A s \in Held :
         (/\ last'.op = "delete"
          /\ last'.arg = s
          /\ ~is_root(ent[s])
          /\ id(ent[s]) = None)
         => (last'.result.kind = "MissingIdentifier" /\ last'.req = NoReq)]_vars

\* C16: fetch, save, delete, create_child and fetch_children leave every field of
\* the session as it was, whatever their result; connect changes no field but
\* api_key.
C16_OnlyConnectChangesApiKey ==
    [][/\ config' # config => last'.op = "connect"
       /\ \A f \in {"url", "root", "username", "password", "organization"} :
            config'[f] = config[f]]_vars

C16_Witness ==
    /\ last.op = "connect"
    /\ last.result.kind = "Ok"
    /\ config = [InitConfig EXCEPT !.api_key = "k2"]

\* C17: the GET that connect sends carries the session's password as its
\* credential, and the API key is stored only once the response has been
\* received and decoded.
C17_ConnectSendsPassword ==
    [][last'.op = "connect"
       => /\ last'.req.method = "GET"
          /\ last'.req.headers.password = config.password
          /\ config'.api_key # config.api_key
             => (/\ ExpectedArrived(last')
                 /\ last'.resp.body.json
                 /\ Len(last'.resp.body.items) >= 1)]_vars

\* C17 as amended: the GET that connect sends carries the session's password
\* when the session holds no API key yet, and the API key it holds otherwise;
\* the API key of the hydrated root is stored only once the response has been
\* received and decoded.
C17_ConnectSendsCurrentCredential ==
    [][last'.op = "connect"
       => /\ last'.req.method = "GET"
          /\ config.api_key = None => last'.req.headers.password = config.password
          /\ config.api_key # None => last'.req.headers.password = config.api_key
          /\ config'.api_key # config.api_key
             => (/\ ExpectedArrived(last')
                 /\ last'.resp.body.json
                 /\ Len(last'.resp.body.items) >= 1
                 /\ config'.api_key =
                       last'.resp.body.items[Len(last'.resp.body.items)].apiKey)]_vars

C17_Witness ==
    /\ last.op = "connect"
    /\ last.result.kind = "Ok"
    /\ last.req.headers.password = "p1"
    /\ config.api_key = "k1"

\* C18: when fetch, save, create_child, fetch_children or connect returns an
\* error, the entity argument or the output vector holds what it held before
\* the call, no session reference has been attached, and the session's api_key
\* is as it was.
C18_ErrorLeavesArgumentsAlone ==
    [][(/\ last'.op \in DecodingOps
        /\ last'.result.kind \in ErrorKinds)
       => (ent' = ent /\ children' = children /\ config'.api_key = config.api_key)]_vars

C18_Witness ==
    /\ last.op = "fetch"
    /\ last.arg = "group"
    /\ last.result.kind = "InvalidResponse"
    /\ get_session(ent["group"]) = None

====
